---------------------------- MODULE Spec2Model ----------------------------
(***************************************************************************)
(* Model of src/eval.py: the detection scorer (IoU matcher, per-threshold  *)
(* statistics dictionary, VOC average precision).                          *)
(*                                                                         *)
(* Conventions                                                             *)
(*  - Python lists and numpy arrays are TLA+ sequences, so positions are   *)
(*    1-based here and 0-based in the source.                              *)
(*  - The thresholds 0.30, 0.50, 0.70 are the integers 30, 50, 70          *)
(*    (hundredths).                                                        *)
(*  - Python floats are exact rationals <<num, den>> in lowest terms; the  *)
(*    float32 array that compute_iou returns is modelled with its 24-bit   *)
(*    significand, because caluclate_tp_fp compares it with a double.      *)
(*  - A box is its four ground-plane corners <<x, y>>; the polygons are    *)
(*    axis-aligned rectangles, for which intersection and union areas are  *)
(*    computed exactly.                                                    *)
(*  - A raised Python exception is recorded by name in call.exc.           *)
(***************************************************************************)
EXTENDS Integers, Sequences, FiniteSets

VARIABLES
    result_stat,    \* the caller's dictionary: threshold -> bucket
    call,           \* the last call made: its arguments, locals, outcome
    frame,          \* SpecMatch: the frame handed to caluclate_tp_fp
    numpy_build,    \* what the installed numpy does where its versions differ
    n_frames,       \* caluclate_tp_fp calls made so far
    n_aps,          \* calculate_ap calls made so far
    schedule,       \* SpecOrder: the frames still to be fed, in given order
    perm_run        \* SpecOrder: a second run fed the same frames permuted

vars == <<result_stat, call, frame, numpy_build, n_frames, n_aps, schedule, perm_run>>

---------------------------------------------------------------------------
(* Bounds of the model. *)

\* most detections in one frame
MaxDet == 2
\* most ground-truth boxes in one frame
MaxGt == 2
\* confidence scores are 1..MaxScore
MaxScore == 2
\* most caluclate_tp_fp calls in one behaviour of Spec
MaxFrames == 2
\* most calls (caluclate_tp_fp, calculate_ap, eval_final_results) in one
\* behaviour of Spec
MaxCalls == 3
\* SpecOrder: confidence scores are 1..MaxOrderScore
MaxOrderScore == 3

---------------------------------------------------------------------------
(* Python values. *)

\* An optional value is a sequence of at most one element: None is the empty
\* one, Some(x) holds x.
None == <<>>
Some(x) == <<x>>
NoException == "no exception"

Scores == 1..MaxScore

\* The three thresholds eval_final_results reads.
Thresholds == {30, 50, 70}

Max2(a, b) == IF a >= b THEN a ELSE b
Min2(a, b) == IF a <= b THEN a ELSE b
Abs(a) == IF a < 0 THEN -a ELSE a

RECURSIVE GCD(_, _)
GCD(a, b) == IF b = 0 THEN a ELSE GCD(b, a % b)

\* The float n/d, kept exact and in lowest terms (d > 0).
Rat(n, d) ==
    LET g == GCD(Abs(n), d)
    IN  <<n \div g, d \div g>>

RatSub(a, b) == Rat(a[1] * b[2] - b[1] * a[2], a[2] * b[2])
RatAdd(a, b) == Rat(a[1] * b[2] + b[1] * a[2], a[2] * b[2])
RatMul(a, b) == Rat(a[1] * b[1], a[2] * b[2])
RatLess(a, b) == a[1] * b[2] < b[1] * a[2]
RatMax(a, b) == IF RatLess(a, b) THEN b ELSE a

SeqsUpTo(S, n) == UNION {[1..k -> S] : k \in 0..n}

---------------------------------------------------------------------------
(* Geometry: convert_format, shapely's areas, compute_iou. *)

Rect(x0, x1, y0, y1) == << <<x0, y0>>, <<x1, y0>>, <<x1, y1>>, <<x0, y1>> >>

\* Polygon([(box[i, 0], box[i, 1]) for i in range(4)]) of an axis-aligned
\* rectangle: its extent.
Polygon(box) ==
    LET xs == {box[i][1] : i \in 1..4}
        ys == {box[i][2] : i \in 1..4}
    IN  [xlo |-> CHOOSE v \in xs : \A w \in xs : v <= w,
         xhi |-> CHOOSE v \in xs : \A w \in xs : v >= w,
         ylo |-> CHOOSE v \in ys : \A w \in ys : v <= w,
         yhi |-> CHOOSE v \in ys : \A w \in ys : v >= w]

convert_format(boxes_array) == [i \in 1..Len(boxes_array) |-> Polygon(boxes_array[i])]

Area(p) == (p.xhi - p.xlo) * (p.yhi - p.ylo)

\* box.intersection(b).area
IntersectionArea(p, q) ==
    Max2(0, Min2(p.xhi, q.xhi) - Max2(p.xlo, q.xlo))
        * Max2(0, Min2(p.yhi, q.yhi) - Max2(p.ylo, q.ylo))

\* box.union(b).area
UnionArea(p, q) == Area(p) + Area(q) - IntersectionArea(p, q)

\* One quotient of line 78 as <<intersection area, union area>>; the
\* division of two Python floats raises when the union area is 0.0.
IouQuotient(p, q) == <<IntersectionArea(p, q), UnionArea(p, q)>>

\* compute_iou(box, boxes): the quotients, or the exception line 78 raises.
compute_iou(box, boxes) ==
    IF \E k \in 1..Len(boxes) : UnionArea(box, boxes[k]) = 0
    THEN [exc |-> "ZeroDivisionError", iou |-> <<>>]
    ELSE [exc |-> NoException,
          iou |-> [k \in 1..Len(boxes) |-> IouQuotient(box, boxes[k])]]

---------------------------------------------------------------------------
(* np.float32 and its comparison with a Python float (lines 80 and 116). *)

TwoTo23 == 2^23

RECURSIVE F32Exp(_, _, _)
F32Exp(n, d, e) == IF n * 2^e >= d * TwoTo23 THEN e ELSE F32Exp(n, d, e + 1)

\* The float32 nearest to n/d (0 < n <= d): <<m, e>> stands for m / 2^e with
\* 2^23 <= m < 2^24, rounded to nearest, ties to even.
Float32(n, d) ==
    LET e == F32Exp(n, d, 23)
        q == (n * 2^e) \div d
        r == (n * 2^e) % d
        m == IF 2 * r > d \/ (2 * r = d /\ q % 2 = 1) THEN q + 1 ELSE q
    IN  IF m = 2 * TwoTo23 THEN <<TwoTo23, e - 1>> ELSE <<m, e>>

\* float32 value f < the double nearest to t/100.  A float32 that is not
\* exactly t/100 differs from it by far more than the double's rounding
\* error, so the exact t/100 decides.  f[2] > 25 means f < 1/4 < t/100.
F32LessDouble(f, t) ==
    IF f[2] > 25 THEN TRUE ELSE f[1] * 25 < t * 2^(f[2] - 2)

\* float32 value f < float32 value g.
F32Less(f, g) ==
    IF f[2] = g[2] THEN f[1] < g[1] ELSE f[2] > g[2]

\* np.max(ious) < iou_thresh, for the float32 maximum of quotient iou.
\* Before NEP 50 numpy promotes float32 scalar and Python float to float64;
\* with NEP 50 the Python float is cast to float32.
IouBelowThresh(iou, iou_thresh, legacy_promotion) ==
    IF iou[1] = 0 THEN 0 < iou_thresh
    ELSE IF legacy_promotion
         THEN F32LessDouble(Float32(iou[1], iou[2]), iou_thresh)
         ELSE F32Less(Float32(iou[1], iou[2]), Float32(iou_thresh, 100))

---------------------------------------------------------------------------
(* numpy's argsort, max and argmax; list.pop. *)

\* np.argsort(-score): positions by descending score.  The default sort kind
\* is not stable: which of two equal scores comes first depends on the build
\* (stable: the earlier position; otherwise the later one).
Argsort(score, stable) ==
    LET n == Len(score)
        Before(a, b) == \/ score[a] > score[b]
                        \/ /\ score[a] = score[b]
                           /\ IF stable THEN a < b ELSE a > b
    IN  [k \in 1..n |->
            CHOOSE a \in 1..n : Cardinality({b \in 1..n : Before(b, a)}) = k - 1]

\* array[index] for an index array.
Take(array, index) == [k \in 1..Len(index) |-> array[index[k]]]

QuotLess(a, b) == a[1] * b[2] < b[1] * a[2]

\* np.argmax(ious): the first position of the maximum.
ArgMax(ious) ==
    CHOOSE k \in 1..Len(ious) :
        /\ \A j \in 1..Len(ious) : ~QuotLess(ious[k], ious[j])
        /\ \A j \in 1..(k - 1) : QuotLess(ious[j], ious[k])

\* np.max(ious)
MaxIou(ious) == ious[ArgMax(ious)]

\* A pop that removes nothing: the matched box stays in the working list
\* (C7 does not hold of a matcher that uses it).
PopKeepsBox(list, k) == list

\* list.pop(k)
Pop(list, k) == [j \in 1..(Len(list) - 1) |-> IF j < k THEN list[j] ELSE list[j + 1]]

---------------------------------------------------------------------------
(* caluclate_tp_fp *)

\* One pass of the loop of lines 112-125 from iteration i on.  gt_index
\* records, per detection, the position np.argmax returned in the working
\* list (0 for a false positive).
RECURSIVE MatchLoop(_, _, _, _, _, _, _, _, _)
MatchLoop(i, score_order_descend, det_polygon_list, gt_polygon_list, fp, tp, gt_index, iou_thresh, build) ==
    IF i > Len(score_order_descend)
    THEN [exc |-> NoException, fp |-> fp, tp |-> tp, gt_index |-> gt_index,
          gt_polygon_list |-> gt_polygon_list]
    ELSE IF score_order_descend[i] > Len(det_polygon_list)
    THEN [exc |-> "IndexError", fp |-> fp, tp |-> tp, gt_index |-> gt_index,
          gt_polygon_list |-> gt_polygon_list]
    ELSE
      LET det_polygon == det_polygon_list[score_order_descend[i]]
          ious == compute_iou(det_polygon, gt_polygon_list)
      IN  IF ious.exc # NoException
          THEN [exc |-> ious.exc, fp |-> fp, tp |-> tp, gt_index |-> gt_index,
                gt_polygon_list |-> gt_polygon_list]
          ELSE IF \/ Len(gt_polygon_list) = 0
                  \/ IouBelowThresh(MaxIou(ious.iou), iou_thresh,
                                    build.legacy_promotion)
          THEN MatchLoop(i + 1, score_order_descend, det_polygon_list,
                         gt_polygon_list, Append(fp, 1), Append(tp, 0),
                         Append(gt_index, 0), iou_thresh, build)
          ELSE MatchLoop(i + 1, score_order_descend, det_polygon_list,
                         Pop(gt_polygon_list, ArgMax(ious.iou)),
                         Append(fp, 0), Append(tp, 1),
                         Append(gt_index, ArgMax(ious.iou)), iou_thresh, build)

\* The locals of caluclate_tp_fp when it reaches line 127 (or raises).
MatchFrameLocals(det_boxes, det_score, gt_boxes, iou_thresh, build) ==
    IF det_boxes = None
    THEN [exc |-> NoException, fp |-> <<>>, tp |-> <<>>, gt_index |-> <<>>,
          score |-> <<>>, order |-> <<>>, gt |-> Len(gt_boxes),
          gt_left |-> Len(gt_boxes)]
    ELSE
      LET score_order_descend == Argsort(det_score, build.stable_sort)
          loop == MatchLoop(1, score_order_descend, convert_format(det_boxes[1]),
                            convert_format(gt_boxes), <<>>, <<>>, <<>>,
                            iou_thresh, build)
      IN  [exc |-> loop.exc, fp |-> loop.fp, tp |-> loop.tp,
           gt_index |-> loop.gt_index,
           score |-> Take(det_score, score_order_descend),
           order |-> score_order_descend, gt |-> Len(gt_boxes),
           gt_left |-> Len(loop.gt_polygon_list)]

\* Lines 127-131 on dictionary stat.
\* An append that counts the matched ground-truth boxes only (C10 does not
\* hold of it).
AppendFrameMatchedGt(stat, iou_thresh, locals) ==
    [stat EXCEPT ![iou_thresh] =
        [score |-> @.score \o locals.score,
         fp    |-> @.fp \o locals.fp,
         tp    |-> @.tp \o locals.tp,
         gt    |-> @.gt + (locals.gt - locals.gt_left)]]

AppendFrame(stat, iou_thresh, locals) ==
    [stat EXCEPT ![iou_thresh] =
        [score |-> @.score \o locals.score,
         fp    |-> @.fp \o locals.fp,
         tp    |-> @.tp \o locals.tp,
         gt    |-> @.gt + locals.gt]]

\* caluclate_tp_fp as a function of its arguments: the dictionary it leaves
\* and the call's record.
TpFp(det_boxes, det_score, gt_boxes, stat, iou_thresh, build) ==
    LET locals == MatchFrameLocals(det_boxes, det_score, gt_boxes, iou_thresh, build)
        exc == IF locals.exc # NoException THEN locals.exc
               ELSE IF iou_thresh \notin DOMAIN stat THEN "KeyError"
               ELSE NoException
    IN  [result_stat |-> IF exc = NoException
                         THEN AppendFrame(stat, iou_thresh, locals) ELSE stat,
         call |-> [op |-> "caluclate_tp_fp", iou_thresh |-> iou_thresh,
                   n_boxes |-> IF det_boxes = None THEN 0 ELSE Len(det_boxes[1]),
                   n_score |-> IF det_boxes = None THEN 0 ELSE Len(det_score),
                   n_gt |-> Len(gt_boxes),
                   exc |-> exc, locals |-> locals, ret |-> None]]

---------------------------------------------------------------------------
(* voc_ap and calculate_ap *)

RECURSIVE CumSum(_, _)
\* The loops of lines 168-176: list[idx] becomes the sum of the entries up to idx.
CumSum(list, idx) ==
    IF idx = 0 THEN <<>>
    ELSE LET before == CumSum(list, idx - 1)
         IN  Append(before, list[idx] + (IF idx = 1 THEN 0 ELSE before[idx - 1]))

RECURSIVE Envelope(_, _)
\* Lines 25-26 from index i down.
Envelope(mpre, i) ==
    IF i < 1 THEN mpre
    ELSE Envelope([mpre EXCEPT ![i] = RatMax(mpre[i], mpre[i + 1])], i - 1)

RECURSIVE ApSum(_, _, _)
\* Lines 28-35: the terms of the positions up to i where the recall changes.
ApSum(mrec, mpre, i) ==
    IF i < 2 THEN <<0, 1>>
    ELSE IF mrec[i] # mrec[i - 1]
         THEN RatAdd(ApSum(mrec, mpre, i - 1),
                     RatMul(RatSub(mrec[i], mrec[i - 1]), mpre[i]))
         ELSE ApSum(mrec, mpre, i - 1)

voc_ap(rec, prec) ==
    LET mrec == <<Rat(0, 1)>> \o rec \o <<Rat(1, 1)>>
        mpre == Envelope(<<Rat(0, 1)>> \o prec \o <<Rat(0, 1)>>, Len(prec) + 1)
    IN  [ap |-> ApSum(mrec, mpre, Len(mrec)), mrec |-> mrec, mpre |-> mpre]

\* Lines 151-164: the fp and tp lists the rest of calculate_ap works on, and
\* whether they are the bucket's own lists (no copy is made without global
\* sorting).
\* The lists without the global sort, whatever the flag (C8 does not hold
\* of it).
ApListsUnsorted(iou_5, global_sort_detections, build) ==
    [exc |-> IF Len(iou_5.fp) = Len(iou_5.tp) THEN NoException ELSE "AssertionError",
     fp |-> iou_5.fp, tp |-> iou_5.tp, aliased |-> ~global_sort_detections]

ApLists(iou_5, global_sort_detections, build) ==
    IF global_sort_detections
    THEN LET sorted_index == Argsort(iou_5.score, build.stable_sort)
         IN  [exc |-> IF Len(iou_5.fp) = Len(iou_5.tp) /\ Len(iou_5.tp) = Len(iou_5.score)
                      THEN NoException ELSE "AssertionError",
              fp |-> IF Len(iou_5.fp) = Len(iou_5.score)
                     THEN Take(iou_5.fp, sorted_index) ELSE <<>>,
              tp |-> IF Len(iou_5.tp) = Len(iou_5.score)
                     THEN Take(iou_5.tp, sorted_index) ELSE <<>>,
              aliased |-> FALSE]
    ELSE [exc |-> IF Len(iou_5.fp) = Len(iou_5.tp) THEN NoException ELSE "AssertionError",
          fp |-> iou_5.fp, tp |-> iou_5.tp, aliased |-> TRUE]

\* calculate_ap as a function of its arguments: the dictionary it leaves, the
\* exception it raises and the value it returns.
CalculateAp(stat, iou, global_sort_detections, build) ==
    IF iou \notin DOMAIN stat
    THEN [result_stat |-> stat, exc |-> "KeyError", ret |-> None]
    ELSE
      LET iou_5 == stat[iou]
          lists == ApLists(iou_5, global_sort_detections, build)
          gt_total == iou_5.gt
          fp == CumSum(lists.fp, Len(lists.fp))
          tp == CumSum(lists.tp, Len(lists.tp))
          after == IF lists.aliased
                   THEN [stat EXCEPT ![iou] = [@ EXCEPT !.fp = fp, !.tp = tp]]
                   ELSE stat
      IN  IF lists.exc # NoException
          THEN [result_stat |-> stat, exc |-> lists.exc, ret |-> None]
          ELSE IF Len(tp) > 0 /\ gt_total = 0
          THEN [result_stat |-> after, exc |-> "ZeroDivisionError", ret |-> None]
          ELSE IF \E idx \in 1..Len(tp) : fp[idx] + tp[idx] = 0
          THEN [result_stat |-> after, exc |-> "ZeroDivisionError", ret |-> None]
          ELSE
            LET rec == [idx \in 1..Len(tp) |-> Rat(tp[idx], gt_total)]
                prec == [idx \in 1..Len(tp) |-> Rat(tp[idx], fp[idx] + tp[idx])]
            IN  [result_stat |-> after, exc |-> NoException, ret |-> Some(voc_ap(rec, prec))]

\* The thresholds of lines 194-196, in the order of the calls.
FinalIous == <<30, 50, 70>>

\* One of the calls of lines 194-196, made unless an earlier one raised:
\* done holds the dictionary, the exception and the values returned so far.
ApThen(done, iou, global_sort_detections, build) ==
    IF done.exc # NoException THEN done
    ELSE LET r == CalculateAp(done.result_stat, iou, global_sort_detections, build)
         IN  [result_stat |-> r.result_stat, exc |-> r.exc,
              rets |-> done.rets \o r.ret]

\* dump_dict of lines 198-207.
DumpDict(rets) ==
    [ap_30 |-> rets[1].ap, ap_50 |-> rets[2].ap, ap_70 |-> rets[3].ap,
     mpre_30 |-> rets[1].mpre, mpre_50 |-> rets[2].mpre, mpre_70 |-> rets[3].mpre,
     mrec_30 |-> rets[1].mrec, mrec_50 |-> rets[2].mrec, mrec_70 |-> rets[3].mrec]

\* eval_final_results as a function of its arguments.  dump_dict is built
\* and dropped: the function has no return statement, so it returns None.
EvalFinalResults(stat, global_sort_detections, build) ==
    LET start == [result_stat |-> stat, exc |-> NoException, rets |-> <<>>]
        after30 == {ApThen(start, FinalIous[1], global_sort_detections, build)}
        after50 == {ApThen(d, FinalIous[2], global_sort_detections, build) : d \in after30}
        after70 == {ApThen(d, FinalIous[3], global_sort_detections, build) : d \in after50}
    IN  CHOOSE out \in {[result_stat |-> d.result_stat, exc |-> d.exc,
                          dump_dict |-> IF d.exc = NoException
                                        THEN Some(DumpDict(d.rets)) ELSE None,
                          ret |-> None] : d \in after70} : TRUE

---------------------------------------------------------------------------
(* The inputs the specifications draw from. *)

BoxA == Rect(0, 10, 0, 1)
\* IoU with BoxA is 7/10
BoxB == Rect(0, 7, 0, 1)
\* IoU with BoxA is 7/10, with BoxB 4/10
BoxD == Rect(3, 10, 0, 1)
\* an all-zero (padding) box: zero area
BoxZ == Rect(0, 0, 0, 0)

\* A frame of detections (None, or as many boxes over D as scores over S)
\* and ground truth (boxes over G).
DetsOver(D, S) == UNION {[1..n -> D] \X [1..n -> S] : n \in 0..MaxDet}

FramesOver(D, S, G) ==
    {[det_boxes |-> None, det_score |-> <<>>, gt_boxes |-> g] :
        g \in SeqsUpTo(G, MaxGt)}
    \cup
    {[det_boxes |-> Some(d[1]), det_score |-> d[2], gt_boxes |-> g] :
        d \in DetsOver(D, S), g \in SeqsUpTo(G, MaxGt)}

\* The call of caluclate_tp_fp on frame f at threshold t.
AtThresh(f, t) ==
    [det_boxes |-> f.det_boxes, det_score |-> f.det_score,
     gt_boxes |-> f.gt_boxes, iou_thresh |-> t]

\* SpecMatch: IoU 1, 7/10, 4/10 and 0, and the zero-area pair.
MatchDetBoxes == {BoxA, BoxD, BoxZ}
MatchGtBoxes == {BoxA, BoxB, BoxZ}
MatchFrames == FramesOver(MatchDetBoxes, Scores, MatchGtBoxes)

\* SpecMismatch: the counts of boxes and of scores differ.
MismatchDets ==
    {d \in SeqsUpTo(MatchDetBoxes, MaxDet) \X SeqsUpTo(Scores, MaxDet) :
        Len(d[1]) # Len(d[2])}

MismatchFrames ==
    {[det_boxes |-> Some(d[1]), det_score |-> d[2], gt_boxes |-> g] :
        d \in MismatchDets, g \in SeqsUpTo(MatchGtBoxes, MaxGt)}

\* Spec: every detection box is BoxA, every ground-truth box is BoxA.
MainBoxes == {BoxA}
MainFrames == FramesOver(MainBoxes, Scores, MainBoxes)

\* SpecOrder: detections BoxA (matches a remaining BoxA) or BoxZ (matches
\* nothing), ground truth BoxA.
OrderDetBoxes == {BoxA, BoxZ}
OrderGtBoxes == {BoxA}
Distinct(seq) == \A i, j \in 1..Len(seq) : i # j => seq[i] # seq[j]
OrderFrames ==
    {f \in FramesOver(OrderDetBoxes, 1..MaxOrderScore, OrderGtBoxes) :
        Distinct(f.det_score)}

\* The threshold SpecOrder accumulates at (line 195).
OrderThresh == 50

EmptyBucket == [score |-> <<>>, fp |-> <<>>, tp |-> <<>>, gt |-> 0]

\* The dictionary the caller creates before the first frame.
EmptyStat(keys) == [t \in keys |-> EmptyBucket]

\* The sets of thresholds a caller may have configured.
ConfiguredSets == {Thresholds, {50}}

Builds == [legacy_promotion : BOOLEAN, stable_sort : BOOLEAN]

\* No IoU of Spec's and SpecOrder's frames lies at a threshold, so the
\* promotion rule decides nothing there and one is drawn.
SortBuilds == {b \in Builds : b.legacy_promotion}

NoCall == [op |-> "none", exc |-> NoException]

---------------------------------------------------------------------------
(* Actions. *)

\* A call of caluclate_tp_fp on the caller's dictionary.
caluclate_tp_fp(det_boxes, det_score, gt_boxes, iou_thresh) ==
    \E r \in {TpFp(det_boxes, det_score, gt_boxes, result_stat, iou_thresh, numpy_build)} :
        /\ result_stat' = r.result_stat
        /\ call' = r.call
        /\ n_frames' = n_frames + 1
        /\ UNCHANGED <<numpy_build, n_aps>>

\* A call of calculate_ap on the caller's dictionary.
calculate_ap(iou, global_sort_detections) ==
    \E r \in {CalculateAp(result_stat, iou, global_sort_detections, numpy_build)} :
        /\ result_stat' = r.result_stat
        /\ call' = [op |-> "calculate_ap", iou |-> iou,
                    global_sort_detections |-> global_sort_detections,
                    exc |-> r.exc, ret |-> r.ret]
        /\ n_aps' = n_aps + 1
        /\ UNCHANGED <<numpy_build, n_frames>>

\* A call of eval_final_results on the caller's dictionary.
eval_final_results(global_sort_detections) ==
    \E r \in {EvalFinalResults(result_stat, global_sort_detections, numpy_build)} :
        /\ result_stat' = r.result_stat
        /\ call' = [op |-> "eval_final_results",
                    global_sort_detections |-> global_sort_detections,
                    exc |-> r.exc, dump_dict |-> r.dump_dict, ret |-> r.ret]
        /\ n_aps' = n_aps + 1
        /\ UNCHANGED <<numpy_build, n_frames>>

---------------------------------------------------------------------------
(* Spec: a caller that feeds frames and asks for metrics in any order. *)

Init ==
    /\ \E keys \in ConfiguredSets : result_stat = EmptyStat(keys)
    /\ call = NoCall
    /\ frame = None
    /\ numpy_build \in SortBuilds
    /\ n_frames = 0
    /\ n_aps = 0
    /\ schedule = <<>>
    /\ perm_run = None

Accumulate ==
    /\ n_frames < MaxFrames
    /\ n_frames + n_aps < MaxCalls
    /\ \E f \in MainFrames, t \in Thresholds :
          caluclate_tp_fp(f.det_boxes, f.det_score, f.gt_boxes, t)
    /\ UNCHANGED <<frame, schedule, perm_run>>

ComputeAp ==
    /\ n_frames + n_aps < MaxCalls
    /\ \E iou \in Thresholds, g \in BOOLEAN : calculate_ap(iou, g)
    /\ UNCHANGED <<frame, schedule, perm_run>>

EvalFinal ==
    /\ n_frames + n_aps < MaxCalls
    /\ \E g \in BOOLEAN : eval_final_results(g)
    /\ UNCHANGED <<frame, schedule, perm_run>>

Next == Accumulate \/ ComputeAp \/ EvalFinal

Spec == Init /\ [][Next]_vars

---------------------------------------------------------------------------
(* SpecMatch: caluclate_tp_fp applied once to every frame of MatchFrames. *)

InitMatch ==
    /\ result_stat = EmptyStat(Thresholds)
    /\ call = NoCall
    /\ \E f \in MatchFrames, t \in Thresholds : frame = Some(AtThresh(f, t))
    /\ numpy_build \in Builds
    /\ n_frames = 0
    /\ n_aps = 0
    /\ schedule = <<>>
    /\ perm_run = None

MatchFrame ==
    /\ n_frames = 0
    /\ caluclate_tp_fp(frame[1].det_boxes, frame[1].det_score,
                       frame[1].gt_boxes, frame[1].iou_thresh)
    /\ UNCHANGED <<frame, schedule, perm_run>>

NextMatch == MatchFrame

SpecMatch == InitMatch /\ [][NextMatch]_vars

---------------------------------------------------------------------------
(* SpecMismatch: caluclate_tp_fp applied once to a frame whose counts of    *)
(* boxes and of scores differ.                                             *)

InitMismatch ==
    /\ result_stat = EmptyStat(Thresholds)
    /\ call = NoCall
    /\ \E f \in MismatchFrames, t \in Thresholds : frame = Some(AtThresh(f, t))
    /\ numpy_build \in Builds
    /\ n_frames = 0
    /\ n_aps = 0
    /\ schedule = <<>>
    /\ perm_run = None

NextMismatch == MatchFrame

SpecMismatch == InitMismatch /\ [][NextMismatch]_vars

---------------------------------------------------------------------------
(* SpecOrder: two runs over the same two frames, the second run fed them in *)
(* the other order; then calculate_ap on both.  The scores of the two      *)
(* frames are pairwise distinct.                                           *)

InitOrder ==
    /\ result_stat = EmptyStat(Thresholds)
    /\ call = NoCall
    /\ frame = None
    /\ numpy_build \in SortBuilds
    /\ n_frames = 0
    /\ n_aps = 0
    /\ \E f1, f2 \in OrderFrames :
          /\ Distinct(f1.det_score \o f2.det_score)
          /\ schedule = <<f1, f2>>
          /\ perm_run = Some([result_stat |-> EmptyStat(Thresholds),
                              schedule |-> <<f2, f1>>, call |-> NoCall])

\* Each run accumulates its next frame.
FeedBoth ==
    /\ perm_run # None
    /\ schedule # <<>>
    /\ call.exc = NoException
    /\ perm_run[1].call.exc = NoException
    /\ caluclate_tp_fp(Head(schedule).det_boxes, Head(schedule).det_score,
                       Head(schedule).gt_boxes, OrderThresh)
    /\ schedule' = Tail(schedule)
    /\ perm_run' =
          LET f == Head(perm_run[1].schedule)
              r == TpFp(f.det_boxes, f.det_score, f.gt_boxes,
                        perm_run[1].result_stat, OrderThresh, numpy_build)
          IN  Some([result_stat |-> r.result_stat,
                    schedule |-> Tail(perm_run[1].schedule), call |-> r.call])
    /\ UNCHANGED frame

\* Each run computes the AP of its bucket.
ApBoth ==
    /\ perm_run # None
    /\ schedule = <<>>
    /\ n_aps = 0
    /\ call.exc = NoException
    /\ perm_run[1].call.exc = NoException
    /\ \E g \in BOOLEAN :
          /\ calculate_ap(OrderThresh, g)
          /\ perm_run' =
                LET r == CalculateAp(perm_run[1].result_stat, OrderThresh, g, numpy_build)
                IN  Some([result_stat |-> r.result_stat, schedule |-> <<>>,
                          call |-> [op |-> "calculate_ap", iou |-> OrderThresh,
                                    global_sort_detections |-> g,
                                    exc |-> r.exc, ret |-> r.ret]])
    /\ UNCHANGED <<frame, schedule>>

NextOrder == FeedBoth \/ ApBoth

SpecOrder == InitOrder /\ [][NextOrder]_vars

---------------------------------------------------------------------------
(* Properties. *)

RECURSIVE SumSeq(_)
SumSeq(seq) == IF seq = <<>> THEN 0 ELSE Head(seq) + SumSeq(Tail(seq))

IsTpFpCall == call.op = "caluclate_tp_fp"
IsApCall == call.op = "calculate_ap"

\* The number of detections of the frame under test.
FrameDetCount ==
    IF frame[1].det_boxes = None THEN 0 ELSE Len(frame[1].det_boxes[1])

\* seq without its k-th element.
Without(seq, k) == SubSeq(seq, 1, k - 1) \o SubSeq(seq, k + 1, Len(seq))

RECURSIVE Consumed(_, _)
\* The original positions of the ground-truth boxes that a run of argmax
\* positions gt_index removes from the working list `remaining` (0 where
\* nothing is removed).
Consumed(gt_index, remaining) ==
    IF gt_index = <<>> THEN <<>>
    ELSE IF Head(gt_index) = 0
         THEN <<0>> \o Consumed(Tail(gt_index), remaining)
         ELSE <<remaining[Head(gt_index)]>>
              \o Consumed(Tail(gt_index), Without(remaining, Head(gt_index)))

\* IoU(p, q) >= t/100 and IoU(p, q) <= IoU(p, r), exactly.
IouAtLeast(p, q, t) == IntersectionArea(p, q) * 100 >= t * UnionArea(p, q)
IouLeq(p, q, r) ==
    IntersectionArea(p, q) * UnionArea(p, r) <= IntersectionArea(p, r) * UnionArea(p, q)

\* C1: calculate_ap leaves the dictionary as it found it, and a second call
\* with the same arguments right after the first returns what the first did.
C1_ApIdempotent ==
    [][(call'.op = "calculate_ap" /\ n_aps' = n_aps + 1) =>
          /\ result_stat' = result_stat
          /\ (/\ IsApCall
              /\ call.iou = call'.iou
              /\ call.global_sort_detections = call'.global_sort_detections)
             => (call'.exc = call.exc /\ call'.ret = call.ret)]_vars

\* C2: calculate_ap on a bucket with gt = 0 and at least one detection raises
\* nothing and returns AP 0.0 with every recall value 0.0.
C2_ZeroGtGivesZeroAp ==
    (/\ IsApCall
     /\ call.iou \in DOMAIN result_stat
     /\ result_stat[call.iou].gt = 0
     /\ Len(result_stat[call.iou].score) > 0)
    => /\ call.exc = NoException
       /\ call.ret[1].ap = Rat(0, 1)
       /\ \A i \in 1..(Len(call.ret[1].mrec) - 1) : call.ret[1].mrec[i] = Rat(0, 1)

\* C3: the AP calculate_ap returns lies in [0, 1].
C3_ApInUnitInterval ==
    (IsApCall /\ call.exc = NoException)
    => /\ ~RatLess(call.ret[1].ap, Rat(0, 1))
       /\ ~RatLess(Rat(1, 1), call.ret[1].ap)

\* C4: a frame with a detection and a ground-truth box whose union has zero
\* area raises no division error, and every detection is labelled.
C4_ZeroUnionIsZeroIou ==
    (/\ frame # None
     /\ IsTpFpCall
     /\ frame[1].det_boxes # None
     /\ Len(frame[1].det_boxes[1]) = Len(frame[1].det_score)
     /\ \E i \in 1..Len(frame[1].det_boxes[1]), j \in 1..Len(frame[1].gt_boxes) :
           UnionArea(Polygon(frame[1].det_boxes[1][i]), Polygon(frame[1].gt_boxes[j])) = 0)
    => /\ call.exc = NoException
       /\ Len(call.locals.tp) = FrameDetCount

\* C5: a call with different counts of boxes and scores raises an error and
\* leaves the dictionary as it was.
C5_MismatchFailsFast ==
    (/\ frame # None
     /\ IsTpFpCall
     /\ Len(frame[1].det_boxes[1]) # Len(frame[1].det_score))
    => /\ call.exc # NoException
       /\ result_stat = EmptyStat(Thresholds)

\* C6: eval_final_results works for whatever thresholds are configured and
\* returns the report it packaged.
C6_ReturnsReport ==
    (call.op = "eval_final_results")
    => /\ call.exc # "KeyError"
       /\ call.exc = NoException => (call.ret # None /\ call.ret = call.dump_dict)

\* C7: the labels of one frame: every detection is exactly one of TP and FP,
\* no more TPs than ground-truth boxes, and every TP took one box out of the
\* working list, so no box is matched twice.
C7_LabelsOneToOne ==
    (frame # None /\ IsTpFpCall /\ call.exc = NoException)
    => LET tp == call.locals.tp
           fp == call.locals.fp
           n_gt == Len(frame[1].gt_boxes)
       IN  /\ Len(tp) = FrameDetCount
           /\ Len(fp) = FrameDetCount
           /\ \A i \in 1..Len(tp) : tp[i] \in {0, 1} /\ fp[i] = 1 - tp[i]
           /\ SumSeq(tp) <= n_gt
           /\ SumSeq(tp) + SumSeq(fp) = FrameDetCount
           /\ call.locals.gt_left = n_gt - SumSeq(tp)
           /\ LET used == Consumed(call.locals.gt_index, [j \in 1..n_gt |-> j])
              IN  \A i, k \in 1..Len(used) :
                     (i # k /\ used[i] # 0) => used[i] # used[k]

\* Two detections on the one ground-truth box they both cover: one TP, one FP.
C7_Witness ==
    /\ frame # None
    /\ IsTpFpCall
    /\ call.exc = NoException
    /\ frame[1].det_boxes = Some(<<BoxA, BoxA>>)
    /\ frame[1].gt_boxes = <<BoxA>>
    /\ call.locals.tp = <<1, 0>>

\* C8: with global sorting and pairwise distinct scores, the run fed the
\* frames in the other order gets the same AP and curves.
C8_OrderIndependent ==
    (/\ perm_run # None
     /\ IsApCall
     /\ call.global_sort_detections
     /\ Distinct(result_stat[OrderThresh].score))
    => /\ call.exc = perm_run[1].call.exc
       /\ call.ret = perm_run[1].call.ret

\* Both runs sorted buckets that were appended in different orders, and the
\* AP is neither 0 nor 1.
C8_Witness ==
    /\ perm_run # None
    /\ IsApCall
    /\ call.global_sort_detections
    /\ call.exc = NoException
    /\ Len(result_stat[OrderThresh].score) >= 3
    /\ result_stat[OrderThresh].tp # perm_run[1].result_stat[OrderThresh].tp
    /\ call.ret[1].ap \notin {Rat(0, 1), Rat(1, 1)}
    /\ call.ret = perm_run[1].call.ret

\* C9: in descending-score order, a detection is FP exactly when no
\* ground-truth box remains or its best IoU over the remaining ones is below
\* the threshold (equal is a match); a TP removes the remaining box of best
\* IoU, the one of lowest original position among ties.
C9_GreedyRule ==
    (frame # None /\ IsTpFpCall /\ call.exc = NoException /\ frame[1].det_boxes # None)
    => LET dets == convert_format(frame[1].det_boxes[1])
           gts == convert_format(frame[1].gt_boxes)
           t == frame[1].iou_thresh
           order == call.locals.order
           used == Consumed(call.locals.gt_index, [j \in 1..Len(gts) |-> j])
       IN  /\ Len(order) = Len(dets)
           /\ {order[i] : i \in 1..Len(order)} = 1..Len(dets)
           /\ \A i \in 1..(Len(order) - 1) :
                 frame[1].det_score[order[i]] >= frame[1].det_score[order[i + 1]]
           /\ \A i \in 1..Len(order) :
                 LET left == (1..Len(gts)) \ {used[k] : k \in 1..(i - 1)}
                     d == dets[order[i]]
                     best == {j \in left : \A k \in left : IouLeq(d, gts[k], gts[j])}
                 IN  IF left = {} \/ \A j \in left : ~IouAtLeast(d, gts[j], t)
                     THEN call.locals.tp[i] = 0 /\ call.locals.fp[i] = 1 /\ used[i] = 0
                     ELSE /\ call.locals.tp[i] = 1
                          /\ call.locals.fp[i] = 0
                          /\ used[i] \in best
                          /\ \A j \in best : used[i] <= j

\* C10: a call that raises nothing appends the frame's n entries to the
\* threshold's score, tp and fp lists, adds the frame's ground-truth count to
\* its gt, and leaves the other buckets alone.
C10_PureAppend ==
    [][(/\ schedule # <<>>
        /\ call'.op = "caluclate_tp_fp"
        /\ n_frames' = n_frames + 1
        /\ call'.exc = NoException)
       => LET f == Head(schedule)
              n == IF f.det_boxes = None THEN 0 ELSE Len(f.det_boxes[1])
              g == Len(f.gt_boxes)
              t == call'.iou_thresh
              old == result_stat[t]
              new == result_stat'[t]
          IN  /\ Len(new.score) = Len(old.score) + n
              /\ Len(new.tp) = Len(old.tp) + n
              /\ Len(new.fp) = Len(old.fp) + n
              /\ SubSeq(new.score, 1, Len(old.score)) = old.score
              /\ SubSeq(new.tp, 1, Len(old.tp)) = old.tp
              /\ SubSeq(new.fp, 1, Len(old.fp)) = old.fp
              /\ new.gt = old.gt + g
              /\ DOMAIN result_stat' = DOMAIN result_stat
              /\ \A u \in DOMAIN result_stat \ {t} :
                    result_stat'[u] = result_stat[u]]_vars

\* The second frame has been appended to a bucket that held the first, and
\* one of its ground-truth boxes stayed unmatched.
C10_Witness ==
    /\ perm_run # None
    /\ IsTpFpCall
    /\ call.exc = NoException
    /\ n_frames = 2
    /\ call.n_boxes >= 1
    /\ Len(result_stat[OrderThresh].score) > call.n_boxes
    /\ call.n_gt > SumSeq(call.locals.tp)
    /\ result_stat[OrderThresh].gt > call.n_gt

=============================================================================
